---------------------------- MODULE Spec2Model ----------------------------
(***************************************************************************)
(* FXBarrierOption (src/fx_barrier_option.ipynb): the Black-Scholes        *)
(* vanilla pricer of the Vanna-Volga barrier option repository.            *)
(*                                                                         *)
(* The Python code computes in IEEE doubles.  The model computes in signed *)
(* decimal fixed point: a number is [neg, mag] where mag is a sequence of  *)
(* NL limbs in base 10^4, least significant first, of which the lowest     *)
(* FracLimbs limbs are the fraction.  Every arithmetic result is truncated *)
(* toward zero at 10^-(4*FracLimbs).                                       *)
(***************************************************************************)
EXTENDS Integers, Sequences, FiniteSets, TLC

Base == 10^4

\* Number of base-10^4 limbs after the decimal point (precision of the model).
FracLimbs == 3

\* Total limbs of a number: two integer limbs (magnitudes below 10^8).
NL == FracLimbs + 2

-----------------------------------------------------------------------------
(* Magnitudes: sequences of limbs, least significant first.                *)

ZeroMag(n) == [i \in 1..n |-> 0]

IsZeroMag(a) == \A i \in 1..Len(a) : a[i] = 0

RECURSIVE MagCmpFrom(_, _, _)
MagCmpFrom(a, b, i) ==
    IF i = 0 THEN 0
    ELSE IF a[i] > b[i] THEN 1
    ELSE IF a[i] < b[i] THEN -1
    ELSE MagCmpFrom(a, b, i - 1)

\* -1, 0, 1 as a < b, a = b, a > b (equal lengths).
MagCmp(a, b) == MagCmpFrom(a, b, Len(a))

\* The loops below keep their running values in one record st, with the
\* position st.i, the carry st.c and the limbs produced so far st.acc.

RECURSIVE MagAddFrom(_, _, _)
MagAddFrom(a, b, st) ==
    IF st.i > Len(a) THEN st.acc
    ELSE LET s == a[st.i] + b[st.i] + st.c
         IN  MagAddFrom(a, b, [i |-> st.i + 1, c |-> s \div Base,
                               acc |-> Append(st.acc, s % Base)])

MagAdd(a, b) == MagAddFrom(a, b, [i |-> 1, c |-> 0, acc |-> <<>>])

RECURSIVE MagSubFrom(_, _, _)
MagSubFrom(a, b, st) ==
    IF st.i > Len(a) THEN st.acc
    ELSE LET s == a[st.i] - b[st.i] - st.c
         IN  MagSubFrom(a, b, [i |-> st.i + 1, c |-> IF s < 0 THEN 1 ELSE 0,
                               acc |-> Append(st.acc,
                                              IF s < 0 THEN s + Base ELSE s)])

\* a - b for a >= b.
MagSub(a, b) == MagSubFrom(a, b, [i |-> 1, c |-> 0, acc |-> <<>>])

RECURSIVE ConvFrom(_, _, _, _, _)
ConvFrom(a, b, k, hi, st) ==
    IF st.i > hi THEN st.c
    ELSE ConvFrom(a, b, k, hi, [i |-> st.i + 1,
                                c |-> st.c + a[st.i + 1] * b[k - st.i + 1]])

\* Coefficient k (from 0) of the limb-wise product of a and b, plus c.
Conv(a, b, k, c) ==
    LET n  == Len(a)
        lo == IF k - n + 1 > 0 THEN k - n + 1 ELSE 0
        hi == IF k < n - 1 THEN k ELSE n - 1
    IN  ConvFrom(a, b, k, hi, [i |-> lo, c |-> c])

RECURSIVE MagMulFrom(_, _, _)
MagMulFrom(a, b, st) ==
    IF st.i >= FracLimbs + Len(a) THEN st.acc
    ELSE LET s == Conv(a, b, st.i, st.c)
         IN  MagMulFrom(a, b, [i |-> st.i + 1, c |-> s \div Base,
                               acc |-> IF st.i >= FracLimbs
                                       THEN Append(st.acc, s % Base)
                                       ELSE st.acc])

\* Fixed-point product: floor(a * b / Base^FracLimbs).
MagMul(a, b) == MagMulFrom(a, b, [i |-> 0, c |-> 0, acc |-> <<>>])

RECURSIVE MagMulSmallFrom(_, _, _)
MagMulSmallFrom(a, q, st) ==
    IF st.i > Len(a) THEN Append(st.acc, st.c)
    ELSE LET s == a[st.i] * q + st.c
         IN  MagMulSmallFrom(a, q, [i |-> st.i + 1, c |-> s \div Base,
                                    acc |-> Append(st.acc, s % Base)])

\* a * q for a limb q, one limb longer than a.
MagMulSmall(a, q) == MagMulSmallFrom(a, q, [i |-> 1, c |-> 0, acc |-> <<>>])

RECURSIVE MagDivSmallFrom(_, _, _)
MagDivSmallFrom(a, d, st) ==
    IF st.i = 0 THEN st.acc
    ELSE LET s == st.c * Base + a[st.i]
         IN  MagDivSmallFrom(a, d, [i |-> st.i - 1, c |-> s % d,
                                    acc |-> <<s \div d>> \o st.acc])

\* floor(a / d) for an integer 0 < d < 2 * 10^5.
MagDivSmall(a, d) ==
    MagDivSmallFrom(a, d, [i |-> Len(a), c |-> 0, acc |-> <<>>])

RECURSIVE TopIndex(_, _)
\* The index of the highest nonzero limb of b at or below i (1 if none).
TopIndex(b, i) == IF i = 1 \/ b[i] # 0 THEN i ELSE TopIndex(b, i - 1)

RECURSIVE QuotDigit(_, _, _)
\* The largest q' <= q with b * q' <= r (r one limb longer than b).
QuotDigit(r, b, q) ==
    IF q = 0 \/ MagCmp(MagMulSmall(b, q), r) <= 0 THEN q
    ELSE QuotDigit(r, b, q - 1)

RECURSIVE MagDivFrom(_, _, _, _, _)
\* Long division of n by b, whose top limb b[t] is at least Base / 2: st.i
\* runs from the top limb of n down to 1, st.r is the running remainder, and
\* the quotient digit is estimated from the two top limbs of the remainder.
MagDivFrom(n, b, t, keep, st) ==
    IF st.i = 0 THEN st.acc
    ELSE LET rr  == <<n[st.i]>> \o st.r
             est == (rr[t + 1] * Base + rr[t]) \div b[t]
             q   == QuotDigit(rr, b, IF est > Base - 1 THEN Base - 1 ELSE est)
             rem == IF q = 0 THEN rr ELSE MagSub(rr, MagMulSmall(b, q))
         IN  MagDivFrom(n, b, t, keep,
                        [i |-> st.i - 1, r |-> SubSeq(rem, 1, Len(b)),
                         acc |-> IF st.i <= keep THEN <<q>> \o st.acc
                                 ELSE st.acc])

\* Fixed-point quotient: floor(a * Base^FracLimbs / b), b nonzero.  Both are
\* scaled by f first, so that the top limb of the divisor is at least Base / 2.
MagDiv(a, b) ==
    LET t  == TopIndex(b, Len(b))
        f  == Base \div (b[t] + 1)
        bn == SubSeq(MagMulSmall(b, f), 1, Len(b))
        n  == ZeroMag(FracLimbs) \o MagMulSmall(a, f)
    IN  MagDivFrom(n, bn, t, Len(a),
                   [i |-> Len(n), r |-> ZeroMag(Len(b)), acc |-> <<>>])

-----------------------------------------------------------------------------
(* Signed fixed-point numbers.                                             *)

Num(neg, mag) == [neg |-> neg /\ ~IsZeroMag(mag), mag |-> mag]

Zero == Num(FALSE, ZeroMag(NL))

\* The integer n (|n| < 10^8) as a number.
FromInt(n) ==
    LET m == IF n < 0 THEN -n ELSE n
    IN  Num(n < 0, [i \in 1..NL |->
                      IF i = FracLimbs + 1 THEN m % Base
                      ELSE IF i = FracLimbs + 2 THEN m \div Base
                      ELSE 0])

\* n / 10^4 as a number: the unit in which the option's parameters are given.
FromUnits(n) ==
    LET m == IF n < 0 THEN -n ELSE n
    IN  Num(n < 0, [i \in 1..NL |->
                      IF i = FracLimbs THEN m % Base
                      ELSE IF i = FracLimbs + 1 THEN (m \div Base) % Base
                      ELSE IF i = FracLimbs + 2 THEN m \div (Base * Base)
                      ELSE 0])

One == FromInt(1)
Half == FromUnits(5000)

Neg(x) == Num(~x.neg, x.mag)

Abs(x) == Num(FALSE, x.mag)

Add(x, y) ==
    IF x.neg = y.neg THEN Num(x.neg, MagAdd(x.mag, y.mag))
    ELSE IF MagCmp(x.mag, y.mag) >= 0 THEN Num(x.neg, MagSub(x.mag, y.mag))
    ELSE Num(y.neg, MagSub(y.mag, x.mag))

Sub(x, y) == Add(x, Neg(y))

Mul(x, y) == Num(x.neg # y.neg, MagMul(x.mag, y.mag))

Div(x, y) == Num(x.neg # y.neg, MagDiv(x.mag, y.mag))

DivInt(x, d) == Num(x.neg, MagDivSmall(x.mag, d))

\* -1, 0, 1 as x < y, x = y, x > y.
Cmp(x, y) ==
    IF x.neg /\ ~y.neg THEN -1
    ELSE IF ~x.neg /\ y.neg THEN 1
    ELSE IF x.neg THEN MagCmp(y.mag, x.mag)
    ELSE MagCmp(x.mag, y.mag)

IsZero(x) == IsZeroMag(x.mag)

-----------------------------------------------------------------------------
(* numpy / scipy functions used by the class, in fixed point.              *)

RECURSIVE SqrtIter(_, _)
\* Heron's iteration from above: stops when the iterate no longer decreases.
SqrtIter(x, s) ==
    LET t == DivInt(Add(s, Div(x, s)), 2)
    IN  IF Cmp(t, s) >= 0 THEN s ELSE SqrtIter(x, t)

\* np.sqrt for x >= 0.
Sqrt(x) == IF IsZero(x) THEN Zero ELSE SqrtIter(x, DivInt(Add(x, One), 2))

RECURSIVE ExpTerms(_, _, _)
\* Taylor series of e^r: st.term is r^n / n!, st.sum the sum of those before.
ExpTerms(r, n, st) ==
    IF IsZero(st.term) THEN st.sum
    ELSE ExpTerms(r, n + 1, [term |-> DivInt(Mul(st.term, r), n + 1),
                             sum  |-> Add(st.sum, st.term)])

RECURSIVE Exp(_)
\* np.exp: e^y = (e^(y/2))^2 until |y| <= 1/2, then the Taylor series.
Exp(y) ==
    IF Cmp(Abs(y), Half) > 0
    THEN LET e == Exp(DivInt(y, 2)) IN Mul(e, e)
    ELSE ExpTerms(y, 0, [term |-> One, sum |-> Zero])

RECURSIVE AtanhTerms(_, _, _)
\* u + u^3/3 + u^5/5 + ...: st.term is u^n for odd n.
AtanhTerms(u2, n, st) ==
    IF IsZero(st.term) THEN st.sum
    ELSE AtanhTerms(u2, n + 2, [term |-> Mul(st.term, u2),
                                sum  |-> Add(st.sum, DivInt(st.term, n))])

\* np.log for z > 0: ln z = 2 atanh((z - 1) / (z + 1)).
Log(z) ==
    LET u == Div(Sub(z, One), Add(z, One))
        s == AtanhTerms(Mul(u, u), 1, [term |-> u, sum |-> Zero])
    IN  Add(s, s)

\* 1 / sqrt(2 pi) = 0.3989 4228 0401 4326 7794, four digits per limb.
InvSqrt2PiDigits == <<3989, 4228, 401, 4326, 7794>>

InvSqrt2Pi ==
    Num(FALSE, [i \in 1..NL |->
                  IF i <= FracLimbs /\ FracLimbs - i + 1 <= Len(InvSqrt2PiDigits)
                  THEN InvSqrt2PiDigits[FracLimbs - i + 1] ELSE 0])

RECURSIVE CdfTerms(_, _, _)
\* x + x^3/3 + x^5/(3*5) + ...: term n is the previous one times x^2 / n.
CdfTerms(x2, n, st) ==
    IF IsZero(st.term) THEN st.sum
    ELSE CdfTerms(x2, n + 2, [term |-> DivInt(Mul(st.term, x2), n + 2),
                              sum  |-> Add(st.sum, st.term)])

\* The standard normal density.
NormPdf(x) == Mul(InvSqrt2Pi, Exp(Neg(DivInt(Mul(x, x), 2))))

\* Levels of the continued fraction of the upper tail.
TailTerms == 60

RECURSIVE TailFraction(_, _)
\* x + 1/(x + 2/(x + 3/(x + ...))), from level st.k outwards; st.t is the
\* part of the fraction below level st.k.
TailFraction(x, st) ==
    IF st.k = 0 THEN st.t
    ELSE TailFraction(x, [k |-> st.k - 1,
                          t |-> Add(x, Div(FromInt(st.k), st.t))])

\* 1 - Phi(x) for x >= 5/2: pdf(x) / (x + 1/(x + 2/(x + ...))).  From 40 on
\* the double result of norm.cdf is exactly 1.0 (and 0.0 at -x).
UpperTail(x) ==
    IF Cmp(x, FromInt(40)) >= 0 THEN Zero
    ELSE Div(NormPdf(x), TailFraction(x, [k |-> TailTerms, t |-> x]))

\* Phi(x) for |x| < 5/2: 1/2 + pdf(x) (x + x^3/3 + x^5/15 + ...).
CentralCdf(x) ==
    Add(Half, Mul(NormPdf(x),
                  CdfTerms(Mul(x, x), 1, [term |-> x, sum |-> Zero])))

\* scipy.stats.norm.cdf: the series about 0 in the centre, the tail's
\* continued fraction outside it, where the series loses its digits.
NormCdf(x) ==
    IF Cmp(Abs(x), FromUnits(25000)) < 0 THEN CentralCdf(x)
    ELSE IF x.neg THEN UpperTail(Abs(x))
    ELSE Sub(One, UpperTail(x))

\* f"{price:.4f}" of the test cell: the price rounded to four decimals, as
\* an integer number of 10^-4 (prices here are non-negative and below 10^5).
Format4(x) ==
    LET r == Add(x, Num(FALSE, [i \in 1..NL |->
                                  IF i = FracLimbs - 1 THEN 5000 ELSE 0]))
    IN  r.mag[FracLimbs] + Base * r.mag[FracLimbs + 1]
          + Base * Base * r.mag[FracLimbs + 2]

-----------------------------------------------------------------------------
(* Python values.                                                          *)

\* An optional argument: None, or a value v as <<v>>.
None == <<>>
Some(v) == <<v>>

\* The outcome of a method call: the object after the call, whether the
\* call returned or raised, the value or the exception, and the methods of
\* the object the call invoked on its way, in order.
Return(self, value, calls) ==
    [self |-> self, kind |-> "return", value |-> value,
     error |-> "", calls |-> calls]

Raise(self, error, calls) ==
    [self |-> self, kind |-> "raise", value |-> Zero,
     error |-> error, calls |-> calls]

-----------------------------------------------------------------------------
(* class FXBarrierOption.  Prices, rates, volatility and maturity are      *)
(* integers in units of 10^-4; barrier_level is None or such an integer;   *)
(* barrier_type is a string, "None" for None.                              *)

FXBarrierOption(spot_price, strike_price, time_to_maturity, volatility, domestic_rate, foreign_rate, barrier_level, barrier_type) ==
    [spot_price       |-> spot_price,
     strike_price     |-> strike_price,
     time_to_maturity |-> time_to_maturity,
     volatility       |-> volatility,
     domestic_rate    |-> domestic_rate,
     foreign_rate     |-> foreign_rate,
     barrier_level    |-> barrier_level,
     barrier_type     |-> barrier_type]

\* self.volatility * np.sqrt(self.time_to_maturity)
VolSqrtT(self) ==
    Mul(FromUnits(self.volatility), Sqrt(FromUnits(self.time_to_maturity)))

\* D1Expr with the variance term subtracted instead of added.
D1Expr_minus_variance(self, s) ==
    LET K     == FromUnits(self.strike_price)
        T     == FromUnits(self.time_to_maturity)
        vol   == FromUnits(self.volatility)
        drift == Sub(Sub(FromUnits(self.domestic_rate),
                         FromUnits(self.foreign_rate)),
                     Mul(Half, Mul(vol, vol)))
    IN  Div(Add(Log(Div(FromUnits(s), K)), Mul(drift, T)), VolSqrtT(self))

\* The d1 expression for spot s (units of 10^-4) and a nonzero strike.
D1Expr(self, s) ==
    LET K     == FromUnits(self.strike_price)
        T     == FromUnits(self.time_to_maturity)
        vol   == FromUnits(self.volatility)
        drift == Add(Sub(FromUnits(self.domestic_rate),
                         FromUnits(self.foreign_rate)),
                     Mul(Half, Mul(vol, vol)))
    IN  Div(Add(Log(Div(FromUnits(s), K)), Mul(drift, T)), VolSqrtT(self))

\* compute_d1 that keeps a spot_price it is given in self.spot_price.
compute_d1_storing_spot(self, spot_price) ==
    LET s == IF spot_price = None THEN self.spot_price ELSE spot_price[1]
    IN  IF self.strike_price = 0
        THEN Raise(self, "ZeroDivisionError", <<>>)
        ELSE Return([self EXCEPT !.spot_price = s], D1Expr(self, s), <<>>)

\* spot_price / self.strike_price of Python numbers raises at a zero strike.
compute_d1(self, spot_price) ==
    LET s == IF spot_price = None THEN self.spot_price ELSE spot_price[1]
    IN  IF self.strike_price = 0
        THEN Raise(self, "ZeroDivisionError", <<>>)
        ELSE Return(self, D1Expr(self, s), <<>>)

\* The return statement of compute_d2 once d1 is known; r is the outcome of
\* the self.compute_d1() call that gave it.
D2After(r) ==
    IF r.kind = "raise"
    THEN Raise(r.self, r.error, <<"compute_d1">>)
    ELSE Return(r.self, Sub(r.value, VolSqrtT(r.self)), <<"compute_d1">>)

\* compute_d2 that recomputes d1 whatever it is given.
compute_d2_recomputing(self, d1) == D2After(compute_d1(self, None))

compute_d2(self, d1) ==
    IF d1 = None
    THEN D2After(compute_d1(self, None))
    ELSE Return(self, Sub(d1[1], VolSqrtT(self)), <<>>)

\* self.spot_price * np.exp(-self.foreign_rate * self.time_to_maturity)
DiscountedSpot(self) ==
    Mul(FromUnits(self.spot_price),
        Exp(Mul(Neg(FromUnits(self.foreign_rate)),
                FromUnits(self.time_to_maturity))))

\* self.strike_price * np.exp(-self.domestic_rate * self.time_to_maturity)
DiscountedStrike(self) ==
    Mul(FromUnits(self.strike_price),
        Exp(Mul(Neg(FromUnits(self.domestic_rate)),
                FromUnits(self.time_to_maturity))))

\* CallPrice that is zero for an up-and-out option whose barrier is touched.
CallPrice_knocked_out(self, d1, d2) ==
    IF /\ self.barrier_type = "up-out"
       /\ self.barrier_level # None
       /\ self.spot_price >= self.barrier_level[1]
    THEN Zero
    ELSE Sub(Mul(DiscountedSpot(self), NormCdf(d1)),
             Mul(DiscountedStrike(self), NormCdf(d2)))

CallPrice(self, d1, d2) ==
    Sub(Mul(DiscountedSpot(self), NormCdf(d1)),
        Mul(DiscountedStrike(self), NormCdf(d2)))

\* PutPrice with N(d2) and N(d1) in the place of N(-d2) and N(-d1).
PutPrice_unsigned(self, d1, d2) ==
    Sub(Mul(DiscountedStrike(self), NormCdf(d2)),
        Mul(DiscountedSpot(self), NormCdf(d1)))

PutPrice(self, d1, d2) ==
    Sub(Mul(DiscountedStrike(self), NormCdf(Neg(d2))),
        Mul(DiscountedSpot(self), NormCdf(Neg(d1))))

\* PriceBranch whose else prices a put instead of raising.
PriceBranch_put_by_default(self, d1, d2, option_type, cs) ==
    IF option_type = "call" THEN Return(self, CallPrice(self, d1, d2), cs)
    ELSE Return(self, PutPrice(self, d1, d2), cs)

\* The if / elif / else of calculate_vanilla_price; cs are the calls made.
PriceBranch(self, d1, d2, option_type, cs) ==
    IF option_type = "call" THEN Return(self, CallPrice(self, d1, d2), cs)
    ELSE IF option_type = "put" THEN Return(self, PutPrice(self, d1, d2), cs)
    ELSE Raise(self, "ValueError", cs)

\* d2 = self.compute_d2(d1) and what follows; r2 is the call's outcome.
PriceAfterD2(d1, r2, option_type) ==
    PriceBranch(r2.self, d1, r2.value, option_type,
                <<"compute_d1", "compute_d2">>)

\* d1 = self.compute_d1() and what follows; r1 is the call's outcome.
PriceAfterD1(r1, option_type) ==
    IF r1.kind = "raise" THEN Raise(r1.self, r1.error, <<"compute_d1">>)
    ELSE PriceAfterD2(r1.value, compute_d2(r1.self, Some(r1.value)),
                      option_type)

calculate_vanilla_price(self, option_type) ==
    PriceAfterD1(compute_d1(self, None), option_type)

-----------------------------------------------------------------------------
(* The inputs.  The reference contract is the one of the test cell.        *)

RefSpot == 1000000
RefStrike == 900000
RefMaturity == 30000
RefVolatility == 1600
RefDomesticRate == 500
RefForeignRate == 300

\* The largest number of 10-point steps of the spot above the reference.
MaxSpotSteps == 1

Spots == {RefSpot + i * 10 * Base : i \in 0..MaxSpotSteps}

\* A zero strike is the invalid strike whose outcome is an exception.
Strikes == {0, RefStrike}

\* <<time_to_maturity, volatility, domestic_rate, foreign_rate>>.  The last
\* has a volatility of 2%, which puts d1 and d2 beyond 6, in the tail of
\* norm.cdf.
ValidMarkets ==
    {<<RefMaturity, RefVolatility, RefDomesticRate, RefForeignRate>>,
     <<Base \div 2, 2500, -100, 200>>,
     <<Base, 200, RefDomesticRate, RefForeignRate>>}

\* The reference market with a negative volatility.
Markets ==
    ValidMarkets \cup
    {<<RefMaturity, -RefVolatility, RefDomesticRate, RefForeignRate>>}

\* <<barrier_level, barrier_type>>: none, an up barrier above every spot, up
\* barriers at or below every spot (already touched), and an unknown type.
Barriers ==
    {<<None, "None">>,
     <<Some(2 * RefSpot), "up-out">>,
     <<Some(RefStrike), "up-out">>,
     <<Some(RefStrike), "up-in">>,
     <<Some(RefSpot), "sideways">>}

\* The spot_price argument of compute_d1.
SpotArgs == {None, Some(RefSpot - 5 * Base)}

\* The d1 argument of compute_d2.
D1Args == {None, Some(FromUnits(5000))}

\* The option_type argument of calculate_vanilla_price.
OptionTypes == {"call", "put", "straddle"}

\* The contracts of the test cell: no barrier, every parameter positive.
CellSpots == {RefSpot + i * 10 * Base : i \in -1..(MaxSpotSteps + 1)}
CellStrikes == {RefStrike, RefSpot, RefSpot + 10 * Base}
CellMarkets == ValidMarkets \cup {<<Base, 1000, 200, 600>>}

-----------------------------------------------------------------------------
(* A notebook session: one option object and the calls made on it.         *)

VARIABLES
    option,      \* the FXBarrierOption object
    ctor,        \* the arguments its constructor was given
    last,        \* the last method call and its outcome
    overridden,  \* some earlier compute_d1 call was given a spot_price
    call_price,  \* the test cell's call_price, None until assigned
    put_price    \* the test cell's put_price, None until assigned

vars == <<option, ctor, last, overridden, call_price, put_price>>

NoCall ==
    [op |-> "none", spot_arg |-> None, d1_arg |-> None, option_type |-> "",
     kind |-> "none", value |-> Zero, error |-> "", calls |-> <<>>]

\* The call `call` ends with outcome r.
Ends(call, r) ==
    /\ option' = r.self
    /\ last' = [call EXCEPT !.kind = r.kind, !.value = r.value,
                            !.error = r.error, !.calls = r.calls]

\* x = f(...) of the test cell: x is assigned if the call returns.
Assigned(r) == IF r.kind = "return" THEN Some(r.value) ELSE None

Constructed(o) ==
    /\ ctor = o
    /\ option = o
    /\ last = NoCall
    /\ overridden = FALSE
    /\ call_price = None
    /\ put_price = None

Init ==
    \E s \in Spots, k \in Strikes, m \in Markets, b \in Barriers :
        Constructed(FXBarrierOption(s, k, m[1], m[2], m[3], m[4], b[1], b[2]))

CallComputeD1 ==
    \E spot_price \in SpotArgs :
        /\ Ends([NoCall EXCEPT !.op = "compute_d1", !.spot_arg = spot_price],
                compute_d1(option, spot_price))
        /\ overridden' = (overridden \/ spot_price # None)
        /\ UNCHANGED <<ctor, call_price, put_price>>

CallComputeD2 ==
    \E d1 \in D1Args :
        /\ Ends([NoCall EXCEPT !.op = "compute_d2", !.d1_arg = d1],
                compute_d2(option, d1))
        /\ UNCHANGED <<ctor, overridden, call_price, put_price>>

VanillaPriceCall(option_type) ==
    [NoCall EXCEPT !.op = "calculate_vanilla_price",
                   !.option_type = option_type]

CallVanillaPrice ==
    \E option_type \in OptionTypes :
        /\ Ends(VanillaPriceCall(option_type),
                calculate_vanilla_price(option, option_type))
        /\ UNCHANGED <<ctor, overridden, call_price, put_price>>

Next == CallComputeD1 \/ CallComputeD2 \/ CallVanillaPrice

Spec == Init /\ [][Next]_vars

-----------------------------------------------------------------------------
(* The test cell: construct the option, price the call, then the put.  An  *)
(* exception ends the cell, and the variable it was to assign stays unset. *)

CellInit ==
    \E s \in CellSpots, k \in CellStrikes, m \in CellMarkets :
        Constructed(FXBarrierOption(s, k, m[1], m[2], m[3], m[4], None, "None"))

CellCallPrice ==
    /\ last.op = "none"
    /\ Ends(VanillaPriceCall("call"), calculate_vanilla_price(option, "call"))
    /\ call_price' = Assigned(last')
    /\ UNCHANGED <<ctor, overridden, put_price>>

CellPutPrice ==
    /\ call_price # None
    /\ put_price = None
    /\ Ends(VanillaPriceCall("put"), calculate_vanilla_price(option, "put"))
    /\ put_price' = Assigned(last')
    /\ UNCHANGED <<ctor, overridden, call_price>>

CellNext == CellCallPrice \/ CellPutPrice

CellSpec == CellInit /\ [][CellNext]_vars

-----------------------------------------------------------------------------
(* Properties.                                                             *)

\* 10^-6
Micro == Num(FALSE, [i \in 1..NL |-> IF i = FracLimbs - 1 THEN 100 ELSE 0])

Within(x, y, tol) == Cmp(Abs(Sub(x, y)), tol) <= 0

\* Spot, strike, maturity and volatility are strictly positive.
Valid(o) ==
    /\ o.spot_price > 0
    /\ o.strike_price > 0
    /\ o.time_to_maturity > 0
    /\ o.volatility > 0

Priced == last.op = "calculate_vanilla_price"

Reference ==
    FXBarrierOption(RefSpot, RefStrike, RefMaturity, RefVolatility,
                    RefDomesticRate, RefForeignRate, None, "None")

\* The same contract without a barrier, and with another barrier type.
Vanilla(o) == [o EXCEPT !.barrier_level = None, !.barrier_type = "None"]
WithType(o, t) == [o EXCEPT !.barrier_type = t]

\* Spot is at or beyond the barrier of an up or down barrier option.
Touched(o) ==
    /\ o.barrier_level # None
    /\ \/ o.barrier_type \in {"up-in", "up-out"}
          /\ o.spot_price >= o.barrier_level[1]
       \/ o.barrier_type \in {"down-in", "down-out"}
          /\ o.spot_price <= o.barrier_level[1]

\* The closed form of the specification, section 4.2: d1, sigma sqrt(T),
\* S e^(-r_f T) and K e^(-r_d T) of the contract o.
BsTerms(o) ==
    LET S     == FromUnits(o.spot_price)
        K     == FromUnits(o.strike_price)
        T     == FromUnits(o.time_to_maturity)
        sigma == FromUnits(o.volatility)
        r_d   == FromUnits(o.domestic_rate)
        r_f   == FromUnits(o.foreign_rate)
        srt   == Mul(sigma, Sqrt(T))
    IN  [d1     |-> Div(Add(Log(Div(S, K)),
                            Mul(Add(Sub(r_d, r_f), DivInt(Mul(sigma, sigma), 2)),
                                T)),
                        srt),
         srt    |-> srt,
         spot   |-> Mul(S, Exp(Neg(Mul(r_f, T)))),
         strike |-> Mul(K, Exp(Neg(Mul(r_d, T))))]

\* sigma sqrt(T)
BsSigmaRootT(o) ==
    Mul(FromUnits(o.volatility), Sqrt(FromUnits(o.time_to_maturity)))

\* d2 = d1 - sigma sqrt(T)
BsD2(t) == [d2 |-> Sub(t.d1, t.srt)].d2

BsCallOf(t) ==
    Sub(Mul(t.spot, NormCdf(t.d1)), Mul(t.strike, NormCdf(BsD2(t))))

BsPutOf(t) ==
    Sub(Mul(t.strike, NormCdf(Neg(BsD2(t)))), Mul(t.spot, NormCdf(Neg(t.d1))))

BsCall(o) == BsCallOf(BsTerms(o))

BsPut(o) == BsPutOf(BsTerms(o))

\* S e^(-r_f T) - K e^(-r_d T)
BsForwardOf(t) == Sub(t.spot, t.strike)

BsForward(o) == BsForwardOf(BsTerms(o))

\* The outcome of r is the outcome recorded in last.
SameOutcome(r) ==
    /\ last.kind = r.kind
    /\ last.value = r.value
    /\ last.error = r.error

\* compute_d2(compute_d1()) on the object o.
D2OfD1(r) == IF r.kind = "raise" THEN r ELSE compute_d2(r.self, Some(r.value))

\* The last call made again on the object o.
Again(o) ==
    IF last.op = "compute_d1" THEN compute_d1(o, last.spot_arg)
    ELSE IF last.op = "compute_d2" THEN compute_d2(o, last.d1_arg)
    ELSE calculate_vanilla_price(o, last.option_type)

\* C1: a calculate_vanilla_price call whose option_type is neither 'call'
\* nor 'put' raises and returns no price; the exception is the ValueError of
\* the option type whenever the d1 computation before it does not raise
\* (the strike is not zero).
C1_InvalidOptionTypeRaises ==
    (Priced /\ last.option_type \notin {"call", "put"}) =>
        /\ last.kind = "raise"
        /\ ctor.strike_price # 0 => last.error = "ValueError"

C1_Witness ==
    /\ Priced
    /\ last.option_type = "straddle"
    /\ last.error = "ValueError"
    /\ Valid(ctor)

\* C2: a calculate_vanilla_price call on an option whose volatility,
\* maturity, spot or strike is not strictly positive raises.
C2_InvalidInputRaises == (Priced /\ ~Valid(ctor)) => last.kind = "raise"

\* C3: a calculate_vanilla_price call that raises, in particular for its
\* option type, has raised before compute_d1 or compute_d2 was called.
C3_RaisesBeforeComputing ==
    (Priced /\ last.error = "ValueError") => last.calls = <<>>

\* C4: put-call parity: once the cell has priced the call and the put of
\* a contract, call - put = S e^(-r_f T) - K e^(-r_d T) within 10^-6.
C4_PutCallParity ==
    (call_price # None /\ put_price # None) =>
        Within(Sub(call_price[1], put_price[1]),
               BsForward(ctor), Micro)

C4_Witness ==
    /\ call_price # None
    /\ put_price # None
    /\ ctor # Reference
    /\ Valid(ctor)

\* C5: the prices the cell gets are the Black-Scholes closed form of the
\* contract within 10^-6, and for the reference contract they print as
\* 17.8633 (call) and 3.9339 (put).
C5_ClosedForm ==
    /\ call_price # None =>
          /\ Within(call_price[1], BsCall(ctor), Micro)
          /\ ctor = Reference => Format4(call_price[1]) = 178633
    /\ put_price # None =>
          /\ Within(put_price[1], BsPut(ctor), Micro)
          /\ ctor = Reference => Format4(put_price[1]) = 39339

C5_Witness ==
    /\ ctor = Reference
    /\ call_price # None
    /\ put_price # None
    /\ Format4(put_price[1]) = 39339

\* C6: after any sequence of calls, raising or not, the object's
\* attributes are the constructor's arguments, and the last call's outcome
\* is the outcome of that call on a newly constructed object.
C6_NoMutation ==
    /\ option = ctor
    /\ last.op # "none" => SameOutcome(Again(ctor))

C6_Witness ==
    /\ overridden
    /\ last.kind = "raise"
    /\ option = ctor

\* C7: in-out parity: the price of a knock-in option plus the price of the
\* knock-out option with the same parameters is the vanilla price, within
\* 10^-6.
C7_InOutParity ==
    (Priced /\ last.kind = "return" /\ Valid(ctor)
       /\ ctor.barrier_type = "up-in") =>
        Within(Add(last.value,
                   calculate_vanilla_price(WithType(ctor, "up-out"),
                                           last.option_type).value),
               calculate_vanilla_price(Vanilla(ctor), last.option_type).value,
               Micro)

\* C8: when spot is at or beyond the barrier, the price of an 'out' option
\* is 0 and the price of an 'in' option is the vanilla price.
C8_BarrierEdgePolicy ==
    (Priced /\ last.kind = "return" /\ Valid(ctor) /\ Touched(ctor)) =>
        /\ ctor.barrier_type \in {"up-out", "down-out"} => last.value = Zero
        /\ ctor.barrier_type \in {"up-in", "down-in"} =>
              last.value = calculate_vanilla_price(Vanilla(ctor),
                                                   last.option_type).value

\* C9: the outcome of every call is the outcome of the same call on the
\* object that differs only in having no barrier level and no barrier type.
C9_BarrierIndependence == last.op # "none" => SameOutcome(Again(Vanilla(ctor)))

C9_Witness ==
    /\ Priced
    /\ last.kind = "return"
    /\ last.option_type = "call"
    /\ ctor.barrier_type = "up-out"
    /\ Touched(ctor)
    /\ Valid(ctor)

\* C10: compute_d2() is compute_d2(compute_d1()) at the stored spot;
\* compute_d2(d1) is d1 - sigma sqrt(T) and calls no compute_d1; and a price
\* is the closed form at the stored spot, within 10^-6, also after a
\* compute_d1 call that was given another spot.
C10_StoredSpot ==
    /\ (last.op = "compute_d2" /\ last.d1_arg = None) =>
          /\ SameOutcome(D2OfD1(compute_d1(ctor, None)))
          /\ last.calls = <<"compute_d1">>
    /\ (last.op = "compute_d2" /\ last.d1_arg # None) =>
          /\ last.kind = "return"
          /\ last.value = Sub(last.d1_arg[1], BsSigmaRootT(ctor))
          /\ last.calls = <<>>
    /\ (Priced /\ last.kind = "return") =>
          Within(last.value,
                 IF last.option_type = "call" THEN BsCall(ctor) ELSE BsPut(ctor),
                 Micro)

C10_Witness ==
    /\ overridden
    /\ Priced
    /\ last.kind = "return"
    /\ Valid(ctor)

=============================================================================
